---- MODULE Spec2Model ----
(***************************************************************************)
(* domhunter: the per-domain check chain (availability -> indexation ->    *)
(* archive retrieval), its bounded-concurrency fan-out, and the snapshot   *)
(* merge of the Wayback providers.                                         *)
(*                                                                         *)
(* Two specifications share the module:                                    *)
(*   Spec       the batch run of pipeline.py (run, process_domain);        *)
(*   SpecMerge  list_snapshots of providers/wayback_wbp.py and of          *)
(*              providers/wayback.py on bounded variant results.           *)
(*                                                                         *)
(* pipeline.py imports list_snapshots and download_screenshots from        *)
(* .providers.wayback; wayback_wbp.py keeps the same two signatures.  The  *)
(* batch model takes from them only what process_domain sees: a list or an *)
(* exception, a saved count or an exception.  `keys` holds the four        *)
(* credentials, as cli.py builds it, so the lookups keys[...] do not fail. *)
(*                                                                         *)
(* Optional[bool] is modelled by the strings "True", "False", "None".      *)
(* A Wayback timestamp is a fixed-width digit string, so its lexicographic *)
(* order is the numeric order of the naturals used for it here.            *)
(***************************************************************************)
EXTENDS Integers, Sequences, FiniteSets, TLC

VARIABLES
    \* ---- pipeline.py: run / process_domain
    domains,          \* run's argument: the ordered input list
    concurrency,      \* run's argument
    max_screenshots,  \* run's argument
    sem,              \* asyncio.Semaphore._value of the gate built by run
    pc,               \* per task: where process_domain stands
    res,              \* per task: the DomainResult it mutates
    snaps,            \* per task: the local `snaps`
    acquired,         \* per task: number of times it entered `async with semaphore`
    released,         \* per task: number of times it left it
    calls,            \* history: provider calls made, with whether the slot was held
    answers,          \* history: per task, what each check returned ("-": nothing yet)
                      \* and whether list_snapshots returned an "empty" list
    archiveRaised,    \* history: (task, stage) where the archive stage raised
    doneOrder,        \* history: task indices in order of termination
    interrupted,      \* an external interrupt has cancelled the batch
    runState,         \* "idle" | "running" | "returned" | "raised"
    output,           \* what run returned
    files,            \* results.json / results.csv as written by run
    written,          \* history: (task, path) of every directory or file a task made
    \* ---- providers: list_snapshots
    impl,             \* which list_snapshots is running
    limit,            \* its `limit` argument
    pending,          \* variant queries not yet finished
    partials,         \* wayback_wbp: lists of the finished variants, in arrival order
    rows,             \* wayback: the flat `rows` list
    mpc,              \* "idle" | "fetching" | "done"
    snapshots,        \* what list_snapshots returned
    \* ---- providers: download_screenshots
    out_dir,          \* names of the files in the domain's directory
    nsaved,           \* its `saved` counter
    manifest,         \* wayback_wbp: its `manifest` list
    responses,        \* history: per item of the subset, what client.get gave
    wrote,            \* history: names of the files this call has written
    dpc,              \* "idle" | "loop" | "returned"
    existing,         \* history: the files the directory held when the call began
    previous,         \* history: per earlier call on this directory, whether it
                      \* ended with every item of the subset on disk
    \* ---- the gate and the variant queries
    queries           \* per task: variant queries launched and finished so far

pipeVars == <<domains, concurrency, max_screenshots, sem, pc, res, snaps, acquired,
              released, calls, answers, archiveRaised, doneOrder, interrupted,
              runState, output, files, written>>
mergeVars == <<impl, limit, pending, partials, rows, mpc, snapshots>>
dlVars == <<out_dir, nsaved, manifest, responses, wrote, dpc, existing, previous>>
gateVars == <<queries>>
vars == <<pipeVars, mergeVars, dlVars, gateVars>>

\* ------------------------------------------------------------------ bounds
MaxConcurrency == 2
MaxScreenshots == 1
MaxSnaps == 2
MaxLimit == 2
MaxVariantLen == 2
MaxListed == 3
MaxCount == 2
NegCounts == 1
MaxRuns == 2

Domains == {"a.example", "b.example", "c.example"}
TriState == {"True", "False", "None"}
Timestamps == {1, 2}
Originals == {"http://d/", "https://d/"}

\* ----------------------------------------------------------------- helpers
Min(a, b) == IF a < b THEN a ELSE b
Max(a, b) == IF a > b THEN a ELSE b

Range(s) == {s[k] : k \in 1..Len(s)}

\* snapshots[:n] of Python
PyPrefix(s, n) ==
    IF n >= 0 THEN SubSeq(s, 1, Min(n, Len(s)))
    ELSE SubSeq(s, 1, Max(Len(s) + n, 0))

\* run's input: every ordered list of distinct domains (cli.py hands over
\* sorted(set(...)); run itself takes any order)
DomainLists ==
    UNION {{d \in [1..n -> Domains] : \A i, j \in 1..n : i # j => d[i] # d[j]}
           : n \in 1..Cardinality(Domains)}

\* ------------------------------------------------------------- models.py
DomainResult(d) ==
    [domain |-> d, available |-> "None", indexed_google |-> "None",
     wayback_screenshots |-> 0, wayback_html_pages |-> 0, notes |-> <<>>]

\* dataclasses.asdict of a flat dataclass: the same fields and values
to_dict(r) == r

\* ----------------------------------------------------------- pipeline.py
Tasks == 1..Len(domains)

InGate(i) == acquired[i] > released[i]

InFlight == {i \in Tasks : pc[i] \in {"avail", "indexed", "list", "download"}}

Terminated(i) == pc[i] \in {"done", "raised"}

\* asyncio.Semaphore: a slot can be taken while the value is positive
SemFreeAlways(v) == TRUE
SemFree(v) == v > 0

\* leaving `async with semaphore`
SemKeep(v) == v
SemRelease(v) == v + 1

\* `if res.available is not True: return res`
AvailableIsFalse(v) == v = "False"
NotAvailable(v) == v # "True"

\* `if res.indexed_google is not True: return res`
IndexedIsFalse(v) == v = "False"
NotIndexed(v) == v # "True"

\* `res.available = await ...`, `res.indexed_google = await ...`: the value
\* is stored as the check returned it
StoredAsBool(v) == IF v = "True" THEN "True" ELSE "False"
Stored(v) == v

\* `if snaps:`
AnyList(s) == TRUE
HasSnapshots(s) == Len(s) > 0

\* `ddir = out_screens_dir / domain`, with out_screens_dir = out_dir / "screenshots"
SharedDir(i) == <<"screenshots">>
ddir(i) == <<"screenshots", domains[i]>>

\* `out_dir / f"{ts}.html"`
HtmlNames == <<"1.html", "2.html", "3.html", "4.html">>
target_file(dir, ts) == Append(dir, HtmlNames[ts])

\* what download_screenshots of wayback_wbp leaves in the directory: one
\* <timestamp>.html per saved item of snapshots[:max_count], and
\* manifest.json when the manifest has an entry
DownloadWrites(dir, snapshots_, max_count, saved) ==
    LET subset == PyPrefix(snapshots_, max_count)
    IN {target_file(dir, subset[k][1]) : k \in {j \in 1..Len(subset) : saved[j]}}
       \cup (IF Len(subset) > 0 THEN {Append(dir, "manifest.json")} ELSE {})

\* asyncio.gather resumes run when every child has its result
SomeDone == \E i \in 1..Len(domains) : pc[i] = "done"
AllDone == \A i \in 1..Len(domains) : pc[i] = "done"

\* `except Exception as e: res.notes += f"Wayback error: {e}"`
HandlerSwallows(r, e) == [outcome |-> "done", res |-> r]
HandlerReraises(r, e) == [outcome |-> "raised", res |-> r]
WaybackErrorHandler(r, e) ==
    [outcome |-> "done",
     res |-> [r EXCEPT !.notes = @ \o <<"Wayback error: ", e>>]]

\* download_screenshots: the number of items of snapshots[:max_count] saved
download_screenshots(snapshots_, max_count, saved) ==
    Cardinality({k \in 1..Len(PyPrefix(snapshots_, max_count)) : saved[k]})

\* asyncio.gather: the children's results in the order of the children
GatherByCompletion(r, order) == [k \in 1..Len(order) |-> r[order[k]]]
Gather(r, order) == [k \in 1..Len(r) |-> r[k]]

Call(i, fn, held) == [task |-> i, fn |-> fn, held |-> held]

\* snapshot lists list_snapshots can hand to the pipeline: newest first
SnapLists == {[k \in 1..n |-> <<MaxSnaps + 1 - k, "http://d/">>] : n \in 0..MaxSnaps}

MergeIdle ==
    /\ impl = "none" /\ limit = 0 /\ pending = 0 /\ partials = <<>>
    /\ rows = <<>> /\ mpc = "idle" /\ snapshots = <<>>

DlIdle ==
    /\ out_dir = {} /\ nsaved = 0 /\ manifest = <<>> /\ responses = <<>>
    /\ wrote = {} /\ dpc = "idle" /\ existing = {} /\ previous = <<>>

GateIdle == queries = <<>>

\* run(domains, ..., max_screenshots, concurrency) has made its semaphore and
\* its tasks
InitBatch ==
    /\ domains \in DomainLists
    /\ concurrency \in 1..MaxConcurrency
    /\ max_screenshots \in 0..MaxScreenshots
    /\ sem = concurrency
    /\ pc = [i \in 1..Len(domains) |-> "start"]
    /\ res = [i \in 1..Len(domains) |-> DomainResult(domains[i])]
    /\ snaps = [i \in 1..Len(domains) |-> <<>>]
    /\ acquired = [i \in 1..Len(domains) |-> 0]
    /\ released = [i \in 1..Len(domains) |-> 0]
    /\ calls = {}
    /\ answers = [i \in 1..Len(domains) |->
                      [available |-> "-", indexed |-> "-", listed |-> "-"]]
    /\ archiveRaised = {}
    /\ doneOrder = <<>>
    /\ interrupted = FALSE
    /\ runState = "running"
    /\ output = <<>>
    /\ files = [p \in {"results.json", "results.csv"} |-> [exists |-> FALSE, rows |-> <<>>]]
    /\ written = {}

Init ==
    /\ InitBatch
    /\ MergeIdle
    /\ DlIdle
    /\ GateIdle

Running == runState = "running" /\ ~interrupted

\* a task that finishes without `async with`'s exit giving its slot back
LeaveHoldingSlot(i, r, outcome) ==
    /\ sem' = sem
    /\ snaps' = [snaps EXCEPT ![i] = <<>>]
    /\ released' = [released EXCEPT ![i] = @ + 1]
    /\ res' = [res EXCEPT ![i] = r]
    /\ pc' = [pc EXCEPT ![i] = outcome]
    /\ doneOrder' = Append(doneOrder, i)

\* the task leaves the `async with` block and finishes with `outcome`;
\* its local `snaps` goes with its frame
Leave(i, r, outcome) ==
    /\ sem' = SemRelease(sem)
    /\ snaps' = [snaps EXCEPT ![i] = <<>>]
    /\ released' = [released EXCEPT ![i] = @ + 1]
    /\ res' = [res EXCEPT ![i] = r]
    /\ pc' = [pc EXCEPT ![i] = outcome]
    /\ doneOrder' = Append(doneOrder, i)

\* `async with semaphore:` entered; check_availability is called
Acquire(i) ==
    /\ Running /\ pc[i] = "start"
    /\ SemFree(sem)
    /\ sem' = sem - 1
    /\ acquired' = [acquired EXCEPT ![i] = @ + 1]
    /\ pc' = [pc EXCEPT ![i] = "avail"]
    /\ calls' = calls \cup {Call(i, "check_availability", acquired'[i] > released[i])}
    /\ UNCHANGED <<domains, concurrency, max_screenshots, written, answers, archiveRaised, res, snaps, released,
                   doneOrder, interrupted, runState, output, files, mergeVars, dlVars, gateVars>>

\* check_availability returns v
AvailabilityReturns(i, v) ==
    /\ Running /\ pc[i] = "avail"
    /\ answers' = [answers EXCEPT ![i].available = v]
    /\ IF NotAvailable(v)
       THEN /\ Leave(i, [res[i] EXCEPT !.available = Stored(v)], "done")
            /\ UNCHANGED calls
       ELSE /\ res' = [res EXCEPT ![i].available = Stored(v)]
            /\ pc' = [pc EXCEPT ![i] = "indexed"]
            /\ calls' = calls \cup {Call(i, "is_indexed", InGate(i))}
            /\ UNCHANGED <<sem, released, doneOrder, snaps>>
    /\ UNCHANGED <<domains, concurrency, max_screenshots, written, archiveRaised, acquired,
                   interrupted, runState, output, files, mergeVars, dlVars, gateVars>>

\* is_indexed returns v
IndexedReturns(i, v) ==
    /\ Running /\ pc[i] = "indexed"
    /\ answers' = [answers EXCEPT ![i].indexed = v]
    /\ IF NotIndexed(v)
       THEN /\ Leave(i, [res[i] EXCEPT !.indexed_google = Stored(v)], "done")
            /\ UNCHANGED calls
       ELSE /\ res' = [res EXCEPT ![i].indexed_google = Stored(v)]
            /\ pc' = [pc EXCEPT ![i] = "list"]
            /\ calls' = calls \cup {Call(i, "list_snapshots", InGate(i))}
            /\ UNCHANGED <<sem, released, doneOrder, snaps>>
    /\ UNCHANGED <<domains, concurrency, max_screenshots, written, archiveRaised, acquired,
                   interrupted, runState, output, files, mergeVars, dlVars, gateVars>>

\* list_snapshots returns s; with snapshots, download_screenshots is called
\* and runs up to its first await: the directory is made
ListReturns(i, s) ==
    /\ Running /\ pc[i] = "list"
    /\ answers' = [answers EXCEPT ![i].listed =
                       IF Len(s) = 0 THEN "empty" ELSE "nonempty"]
    /\ IF HasSnapshots(s)
       THEN /\ snaps' = [snaps EXCEPT ![i] = s]
            /\ pc' = [pc EXCEPT ![i] = "download"]
            /\ calls' = calls \cup {Call(i, "download_screenshots", InGate(i))}
            /\ written' = written \cup {[task |-> i, path |-> ddir(i)]}
            /\ UNCHANGED <<sem, released, res, doneOrder>>
       ELSE /\ Leave(i, res[i], "done")
            /\ UNCHANGED <<calls, written>>
    /\ UNCHANGED <<domains, concurrency, max_screenshots, archiveRaised, acquired,
                   interrupted, runState, output, files, mergeVars, dlVars, gateVars>>

\* list_snapshots or download_screenshots raises an Exception e
ArchiveRaises(i, e) ==
    /\ Running /\ pc[i] \in {"list", "download"}
    /\ archiveRaised' = archiveRaised \cup {<<i, pc[i]>>}
    /\ LET h == WaybackErrorHandler(res[i], e)
       IN Leave(i, h.res, h.outcome)
    /\ UNCHANGED <<domains, concurrency, max_screenshots, written, answers, acquired, calls,
                   interrupted, runState, output, files, mergeVars, dlVars, gateVars>>

\* download_screenshots returns; saved[k] tells whether item k was saved
DownloadReturns(i, saved) ==
    /\ Running /\ pc[i] = "download"
    /\ Leave(i, [res[i] EXCEPT !.wayback_screenshots =
                     download_screenshots(snaps[i], max_screenshots, saved)], "done")
    /\ written' = written \cup
           {[task |-> i, path |-> f] :
               f \in DownloadWrites(ddir(i), snaps[i], max_screenshots, saved)}
    /\ UNCHANGED <<domains, concurrency, max_screenshots, answers, archiveRaised, acquired, calls,
                   interrupted, runState, output, files, mergeVars, dlVars, gateVars>>

\* KeyboardInterrupt: asyncio.run cancels run, gather cancels its children
Interrupt ==
    /\ Running
    /\ interrupted' = TRUE
    /\ UNCHANGED <<domains, concurrency, max_screenshots, written, answers, archiveRaised, sem, pc, res, snaps,
                   acquired, released, calls, doneOrder, runState, output, files,
                   mergeVars, dlVars, gateVars>>

\* CancelledError is thrown into task i at its suspension point
Cancel(i) ==
    /\ runState = "running" /\ interrupted /\ ~Terminated(i)
    /\ IF pc[i] = "start"
       THEN /\ pc' = [pc EXCEPT ![i] = "raised"]
            /\ doneOrder' = Append(doneOrder, i)
            /\ UNCHANGED <<sem, released, res, snaps>>
       ELSE Leave(i, res[i], "raised")
    /\ UNCHANGED <<domains, concurrency, max_screenshots, written, answers, archiveRaised, acquired, calls,
                   interrupted, runState, output, files, mergeVars, dlVars, gateVars>>

\* gather has every result: run writes the outputs and returns
RunReturn ==
    /\ Running
    /\ AllDone
    /\ LET results == Gather(res, doneOrder)
       IN /\ files' = [p \in DOMAIN files |->
                         [exists |-> TRUE,
                          rows |-> [k \in 1..Len(results) |-> to_dict(results[k])]]]
          /\ output' = results
    /\ runState' = "returned"
    /\ UNCHANGED <<domains, concurrency, max_screenshots, written, answers, archiveRaised, sem, pc, res, snaps,
                   acquired, released, calls, doneOrder, interrupted, mergeVars, dlVars, gateVars>>

\* run does not return: the batch was cancelled, or a child's exception
\* reached gather; nothing is written
RunRaise ==
    /\ runState = "running"
    /\ IF interrupted
       THEN \A i \in Tasks : Terminated(i)
       ELSE \E i \in Tasks : pc[i] = "raised"
    /\ runState' = "raised"
    /\ UNCHANGED <<domains, concurrency, max_screenshots, written, answers, archiveRaised, sem, pc, res, snaps,
                   acquired, released, calls, doneOrder, interrupted, output, files,
                   mergeVars, dlVars, gateVars>>

Next ==
    \/ \E i \in Tasks : Acquire(i)
    \/ \E i \in Tasks, v \in TriState : AvailabilityReturns(i, v)
    \/ \E i \in Tasks, v \in TriState : IndexedReturns(i, v)
    \/ \E i \in Tasks, s \in SnapLists : ListReturns(i, s)
    \/ \E i \in Tasks, e \in {"OSError"} : ArchiveRaises(i, e)
    \/ \E i \in Tasks, saved \in [1..MaxSnaps -> BOOLEAN] : DownloadReturns(i, saved)
    \/ Interrupt
    \/ \E i \in Tasks : Cancel(i)
    \/ RunReturn
    \/ RunRaise

Spec == Init /\ [][Next]_vars

\* the batch left to itself: no KeyboardInterrupt.  The event loop resumes
\* every task whose awaited call has an outcome or whose semaphore has a
\* free slot, and resumes run once gather has every result.
TaskIds == 1..Cardinality(Domains)

TaskStep(i) ==
    /\ i \in Tasks
    /\ \/ Acquire(i)
       \/ \E v \in TriState : AvailabilityReturns(i, v)
       \/ \E v \in TriState : IndexedReturns(i, v)
       \/ \E s \in SnapLists : ListReturns(i, s)
       \/ \E e \in {"OSError"} : ArchiveRaises(i, e)
       \/ \E saved \in [1..MaxSnaps -> BOOLEAN] : DownloadReturns(i, saved)

NextLive ==
    \/ \E i \in TaskIds : TaskStep(i)
    \/ RunReturn

\* the domain names play no part in the scheduling: one list of each length
InitLive ==
    /\ Init
    /\ \E n \in 1..Cardinality(Domains) :
           domains = SubSeq(<<"a.example", "b.example", "c.example">>, 1, n)

SpecLive ==
    /\ InitLive
    /\ [][NextLive]_vars
    /\ \A i \in TaskIds : WF_vars(TaskStep(i))
    /\ WF_vars(RunReturn)

\* ------------------------------------------------- providers: list_snapshots
\* base_patterns / bases: http and https, bare and www
NumBases == 4

\* a variant's snapshots, as (timestamp, original)
Captures == Timestamps \X Originals

SeqsUpTo(S, n) == UNION {[1..k -> S] : k \in 0..n}

\* what _cdx_fetch_for_base can return for one base: at most `limit` CDX
\* snapshots, then the newest capture of the availability API when no
\* snapshot listed has its timestamp
CdxParts(lim) ==
    {p \in SeqsUpTo(Captures, Min(MaxVariantLen, lim + 1)) :
        Len(p) = lim + 1 => \A k \in 1..lim : p[k][1] # p[lim + 1][1]}

\* the rows of one CDX response of wayback.list_snapshots ("limit": str(limit))
CdxRows(lim) == SeqsUpTo(Captures, Min(MaxVariantLen, lim))

RECURSIVE Flatten(_)
Flatten(lists) ==
    IF lists = <<>> THEN <<>> ELSE Head(lists) \o Flatten(Tail(lists))

\* `if key not in seen: seen.add(key); merged.append(s)`: first seen wins
RECURSIVE Uniq(_, _, _)
Uniq(s, seen, acc) ==
    IF s = <<>> THEN acc
    ELSE IF Head(s) \in seen THEN Uniq(Tail(s), seen, acc)
         ELSE Uniq(Tail(s), seen \cup {Head(s)}, Append(acc, Head(s)))

Dedupe(s) == Uniq(s, {}, <<>>)

\* list.sort(key=timestamp, reverse=True): stable, so captures of one
\* timestamp keep the order they had in the list
InsertDesc(sorted, x) ==
    LET n == Cardinality({k \in 1..Len(sorted) : sorted[k][1] >= x[1]})
    IN SubSeq(sorted, 1, n) \o <<x>> \o SubSeq(sorted, n + 1, Len(sorted))

InsertAsc(sorted, x) ==
    LET n == Cardinality({k \in 1..Len(sorted) : sorted[k][1] <= x[1]})
    IN SubSeq(sorted, 1, n) \o <<x>> \o SubSeq(sorted, n + 1, Len(sorted))

RECURSIVE SortDescInto(_, _)
SortDescInto(s, acc) ==
    IF s = <<>> THEN acc ELSE SortDescInto(Tail(s), InsertDesc(acc, Head(s)))

RECURSIVE SortAscInto(_, _)
SortAscInto(s, acc) ==
    IF s = <<>> THEN acc ELSE SortAscInto(Tail(s), InsertAsc(acc, Head(s)))

\* `merged.sort(key=lambda x: x.timestamp, reverse=True)`
SortAscending(s) == SortAscInto(s, <<>>)
SortDescending(s) == SortDescInto(s, <<>>)

\* wayback_wbp._merge_and_dedupe
merge_and_dedupe(lists) == SortDescending(Dedupe(Flatten(lists)))

\* `if len(merged) > limit: merged = merged[:limit]`
Truncate(merged, lim) == IF Len(merged) > lim THEN PyPrefix(merged, lim) ELSE merged

\* wayback_wbp.list_snapshots, from the partials in arrival order
list_snapshots(parts, lim) == Truncate(merge_and_dedupe(parts), lim)

\* wayback.list_snapshots, from its flat rows: unique, then sorted; the
\* limit went to each CDX query and is not applied to the result
wayback_list_snapshots(rows_, lim) == SortDescInto(Uniq(rows_, {}, <<>>), <<>>)

\* process_domain of one domain, both checks answered True, waiting at
\* `snaps = await list_snapshots(...)` with its gate slot
AwaitingList ==
    /\ domains = <<"a.example">> /\ concurrency = 1 /\ max_screenshots = 1
    /\ sem = 0 /\ pc = <<"list">>
    /\ res = <<[DomainResult("a.example") EXCEPT
                   !.available = "True", !.indexed_google = "True"]>>
    /\ snaps = <<(<<>>)>> /\ acquired = <<1>> /\ released = <<0>>
    /\ calls = {Call(1, fn, TRUE) :
                    fn \in {"check_availability", "is_indexed", "list_snapshots"}}
    /\ answers = <<[available |-> "True", indexed |-> "True", listed |-> "-"]>>
    /\ archiveRaised = {} /\ doneOrder = <<>> /\ interrupted = FALSE
    /\ runState = "running" /\ output = <<>>
    /\ files = [p \in {"results.json", "results.csv"} |-> [exists |-> FALSE, rows |-> <<>>]]
    /\ written = {}

InitMerge ==
    /\ AwaitingList
    /\ DlIdle
    /\ GateIdle
    /\ impl \in {"wayback_wbp", "wayback"}
    /\ limit \in 1..MaxLimit
    /\ pending = NumBases
    /\ partials = <<>>
    /\ rows = <<>>
    /\ mpc = "fetching"
    /\ snapshots = <<>>

\* wayback_wbp: a variant task completes with `part`
VariantReturns(part) ==
    /\ impl = "wayback_wbp" /\ mpc = "fetching" /\ pending > 0
    /\ partials' = Append(partials, part)
    /\ pending' = pending - 1
    /\ UNCHANGED <<impl, limit, rows, mpc, snapshots, pipeVars, dlVars, gateVars>>

\* a variant's exception that leaves list_snapshots instead of being dropped
VariantFailsPropagates ==
    /\ mpc = "fetching" /\ pending > 0
    /\ mpc' = "raised"
    /\ UNCHANGED <<impl, limit, pending, partials, rows, snapshots, pipeVars, dlVars, gateVars>>

\* wayback_wbp: a variant task raises; it is logged and dropped.
\* wayback: the query of the next base raises; `continue`
VariantFails ==
    /\ mpc = "fetching" /\ pending > 0
    /\ pending' = pending - 1
    /\ UNCHANGED <<impl, limit, partials, rows, mpc, snapshots, pipeVars, dlVars, gateVars>>

\* wayback_wbp: every variant is in: merge, truncate, return
MergeReturns ==
    /\ impl = "wayback_wbp" /\ mpc = "fetching" /\ pending = 0
    /\ snapshots' = list_snapshots(partials, limit)
    /\ mpc' = "done"
    /\ UNCHANGED <<impl, limit, pending, partials, rows, pipeVars, dlVars, gateVars>>

\* wayback: the query of the next base answers with `data`
BaseReturns(data) ==
    /\ impl = "wayback" /\ mpc = "fetching" /\ pending > 0
    /\ rows' = rows \o data
    /\ pending' = pending - 1
    /\ UNCHANGED <<impl, limit, partials, mpc, snapshots, pipeVars, dlVars, gateVars>>

\* wayback: the loop over the bases is over: unique, sort, return
WaybackReturns ==
    /\ impl = "wayback" /\ mpc = "fetching" /\ pending = 0
    /\ snapshots' = wayback_list_snapshots(rows, limit)
    /\ mpc' = "done"
    /\ UNCHANGED <<impl, limit, pending, partials, rows, pipeVars, dlVars, gateVars>>

\* process_domain gets the list that list_snapshots returned
ProcessorResumes ==
    /\ mpc = "done"
    /\ ListReturns(1, snapshots)

NextMerge ==
    \/ \E part \in CdxParts(limit) : VariantReturns(part)
    \/ VariantFails
    \/ MergeReturns
    \/ \E data \in CdxRows(limit) : BaseReturns(data)
    \/ WaybackReturns
    \/ ProcessorResumes

SpecMerge == InitMerge /\ [][NextMerge]_vars

\* --------------------------------------------- providers: download_screenshots
\* the lists list_snapshots can hand over, computed by the merger itself
MergedLists == {list_snapshots(<<p>>, MaxListed) : p \in SeqsUpTo(Captures, MaxListed)}

\* --max-screenshots, type=int: any integer
MaxCounts == (0 - NegCounts)..MaxCount

\* `overwrite: bool = False`, `save_manifest: bool = True`; the pipeline
\* passes neither
OverwriteEnabled == TRUE
overwrite == FALSE
save_manifest == TRUE

\* what client.get can give: a response with a status and a content type
Responses == [status : {200, 404}, ctype : {"text/html", "image/png", "image/jpeg"}]
\* history entries for an item that had no response
NoRequest == [status |-> 0, ctype |-> "skipped"]
Raised == [status |-> 0, ctype |-> "raised"]

\* `subset = snapshots[:max_count]`
DlSubset == PyPrefix(snapshots, max_screenshots)

\* items of the subset the loop is done with
idx == Len(responses)

\* `resp.status_code == 200 and "text/html" in ctype`
Status200Saved(resp) == resp.status = 200
HtmlSaved(resp) == resp.status = 200 /\ resp.ctype = "text/html"

\* wayback: `r.status_code == 200 and content-type.startswith("image/")`
ImageSaved(resp) == resp.status = 200 /\ resp.ctype \in {"image/png", "image/jpeg"}

\* wayback: `f"{ts}{ext}"`, ext ".png" if "png" is in the content type
PngNames == <<"1.png", "2.png", "3.png", "4.png">>
JpgNames == <<"1.jpg", "2.jpg", "3.jpg", "4.jpg">>
ScreenshotName(ts, resp) == IF resp.ctype = "image/png" THEN PngNames[ts] ELSE JpgNames[ts]

\* client.get calls made so far
Attempts == Cardinality({k \in 1..Len(responses) : responses[k] # NoRequest})

\* process_domain of one domain has called download_screenshots(snaps,
\* ddir, max_count=max_screenshots), which made the directory
AwaitingDownload(s, m) ==
    /\ domains = <<"a.example">> /\ concurrency = 1 /\ max_screenshots = m
    /\ sem = 0 /\ pc = <<"download">>
    /\ res = <<[DomainResult("a.example") EXCEPT
                   !.available = "True", !.indexed_google = "True"]>>
    /\ snaps = <<s>> /\ acquired = <<1>> /\ released = <<0>>
    /\ calls = {Call(1, fn, TRUE) :
                    fn \in {"check_availability", "is_indexed", "list_snapshots",
                            "download_screenshots"}}
    /\ answers = <<[available |-> "True", indexed |-> "True", listed |-> "nonempty"]>>
    /\ archiveRaised = {} /\ doneOrder = <<>> /\ interrupted = FALSE
    /\ runState = "running" /\ output = <<>>
    /\ files = [p \in {"results.json", "results.csv"} |-> [exists |-> FALSE, rows |-> <<>>]]
    /\ written = {[task |-> 1, path |-> ddir(1)]}

InitDownload ==
    /\ \E s \in MergedLists \ {<<>>}, m \in MaxCounts :
           AwaitingDownload(s, m) /\ snapshots = s
    /\ impl \in {"wayback_wbp", "wayback"}
    /\ limit = MaxListed /\ pending = 0 /\ partials = <<>> /\ rows = <<>>
    /\ mpc = "done"
    /\ out_dir \in SUBSET {HtmlNames[t] : t \in Timestamps}
    /\ nsaved = 0 /\ manifest = <<>> /\ responses = <<>> /\ wrote = {}
    /\ dpc = "loop"
    /\ existing = out_dir /\ previous = <<>>
    /\ GateIdle

\* wayback_wbp: the target file is there and overwrite is off: `continue`
ItemSkipped ==
    /\ dpc = "loop" /\ impl = "wayback_wbp" /\ idx < Len(DlSubset)
    /\ LET ts == DlSubset[idx + 1][1]
       IN /\ HtmlNames[ts] \in out_dir /\ ~overwrite
          /\ manifest' = Append(manifest,
                 [timestamp |-> ts, saved |-> HtmlNames[ts], note |-> "skipped"])
    /\ responses' = Append(responses, NoRequest)
    /\ UNCHANGED <<out_dir, nsaved, wrote, dpc, existing, previous, pipeVars, mergeVars, gateVars>>

\* wayback_wbp: client.get answers with resp
ItemResponds(resp) ==
    /\ dpc = "loop" /\ impl = "wayback_wbp" /\ idx < Len(DlSubset)
    /\ LET ts == DlSubset[idx + 1][1]
           name == HtmlNames[ts]
       IN /\ ~(name \in out_dir /\ ~overwrite)
          /\ IF HtmlSaved(resp)
             THEN /\ out_dir' = out_dir \cup {name}
                  /\ wrote' = wrote \cup {name}
                  /\ nsaved' = nsaved + 1
                  /\ manifest' = Append(manifest,
                         [timestamp |-> ts, saved |-> name, note |-> "status"])
             ELSE /\ manifest' = Append(manifest,
                         [timestamp |-> ts, saved |-> "None", note |-> "status"])
                  /\ UNCHANGED <<out_dir, wrote, nsaved>>
    /\ responses' = Append(responses, resp)
    /\ UNCHANGED <<dpc, existing, previous, pipeVars, mergeVars, gateVars>>

\* wayback: client.get answers the screenshot request with resp
ScreenshotResponds(resp) ==
    /\ dpc = "loop" /\ impl = "wayback" /\ idx < Len(DlSubset)
    /\ LET name == ScreenshotName(DlSubset[idx + 1][1], resp)
       IN IF ImageSaved(resp)
          THEN /\ out_dir' = out_dir \cup {name}
               /\ wrote' = wrote \cup {name}
               /\ nsaved' = nsaved + 1
          ELSE UNCHANGED <<out_dir, wrote, nsaved>>
    /\ responses' = Append(responses, resp)
    /\ UNCHANGED <<manifest, dpc, existing, previous, pipeVars, mergeVars, gateVars>>

\* client.get raises.  wayback_wbp: `except Exception as e` adds a manifest
\* entry; wayback: `except Exception: continue`
ItemRaises ==
    /\ dpc = "loop" /\ idx < Len(DlSubset)
    /\ LET ts == DlSubset[idx + 1][1]
       IN IF impl = "wayback_wbp"
          THEN /\ ~(HtmlNames[ts] \in out_dir /\ ~overwrite)
               /\ manifest' = Append(manifest,
                      [timestamp |-> ts, saved |-> "None", note |-> "error"])
          ELSE UNCHANGED manifest
    /\ responses' = Append(responses, Raised)
    /\ UNCHANGED <<out_dir, wrote, nsaved, dpc, existing, previous, pipeVars, mergeVars, gateVars>>

\* the loop is over: wayback_wbp writes manifest.json when the manifest has
\* an entry; both return `saved`
DownloadFinishes ==
    /\ dpc = "loop" /\ idx = Len(DlSubset)
    /\ IF impl = "wayback_wbp" /\ save_manifest /\ manifest # <<>>
       THEN /\ out_dir' = out_dir \cup {"manifest.json"}
            /\ wrote' = wrote \cup {"manifest.json"}
       ELSE UNCHANGED <<out_dir, wrote>>
    /\ dpc' = "returned"
    /\ UNCHANGED <<nsaved, manifest, responses, existing, previous, pipeVars, mergeVars, gateVars>>

\* `res.wayback_screenshots = await download_screenshots(...)`, then
\* process_domain returns
ProcessorRecords ==
    /\ dpc = "returned" /\ Running /\ pc[1] = "download"
    /\ Leave(1, [res[1] EXCEPT !.wayback_screenshots = nsaved], "done")
    /\ written' = written \cup {[task |-> 1, path |-> Append(ddir(1), f)] : f \in wrote}
    /\ UNCHANGED <<domains, concurrency, max_screenshots, answers, archiveRaised,
                   acquired, calls, interrupted, runState, output, files,
                   mergeVars, dlVars, gateVars>>

\* the call has gone through the subset and each item was saved or was
\* there already
FullySuccessful ==
    /\ Len(responses) = Len(DlSubset)
    /\ \A k \in 1..Len(responses) :
           \/ responses[k] = NoRequest
           \/ responses[k] \in Responses /\
                  IF impl = "wayback_wbp" THEN HtmlSaved(responses[k])
                  ELSE ImageSaved(responses[k])

\* the command is run once more with the same arguments and output
\* directory, and this domain comes to download_screenshots with the same
\* snapshots: a new call, on the directory as the last one left it
Rerun ==
    /\ dpc = "returned" /\ pc[1] = "done"
    /\ Len(previous) + 1 < MaxRuns
    /\ previous' = Append(previous, FullySuccessful)
    /\ existing' = out_dir
    /\ nsaved' = 0 /\ manifest' = <<>> /\ responses' = <<>> /\ wrote' = {}
    /\ dpc' = "loop"
    /\ pc' = <<"download">> /\ snaps' = <<snapshots>>
    /\ res' = <<[DomainResult("a.example") EXCEPT
                    !.available = "True", !.indexed_google = "True"]>>
    /\ sem' = 0 /\ released' = <<0>> /\ doneOrder' = <<>>
    /\ written' = {[task |-> 1, path |-> ddir(1)]}
    /\ UNCHANGED <<domains, concurrency, max_screenshots, acquired, calls, answers,
                   archiveRaised, interrupted, runState, output, files, out_dir,
                   mergeVars, gateVars>>

NextDownload ==
    \/ ItemSkipped
    \/ \E resp \in Responses : ItemResponds(resp)
    \/ \E resp \in Responses : ScreenshotResponds(resp)
    \/ ItemRaises
    \/ DownloadFinishes
    \/ ProcessorRecords
    \/ Rerun

SpecDownload == InitDownload /\ [][NextDownload]_vars

\* ------------------------------------- the gate and the variant queries
\* the batch, with list_snapshots' variant queries made visible.
\* wayback_wbp starts the four to_thread tasks together when as_completed is
\* entered; wayback awaits one CDX request after the other.
InitGate ==
    /\ InitBatch
    /\ \E n \in 1..Cardinality(Domains) :
           domains = SubSeq(<<"a.example", "b.example", "c.example">>, 1, n)
    /\ impl \in {"wayback_wbp", "wayback"}
    /\ limit = 0 /\ pending = 0 /\ partials = <<>> /\ rows = <<>>
    /\ mpc = "idle" /\ snapshots = <<>>
    /\ DlIdle
    /\ queries = [i \in 1..Len(domains) |-> [launched |-> 0, finished |-> 0]]

\* variant queries of task i that are under way
Running_(i) == queries[i].launched - queries[i].finished

RECURSIVE SumRunning(_)
SumRunning(n) == IF n = 0 THEN 0 ELSE Running_(n) + SumRunning(n - 1)

InFlightQueries == SumRunning(Len(queries))

\* the `for fut in asyncio.as_completed(tasks)` loop (wayback: the loop
\* over the bases) has had every variant's result or exception
QueriesOverAlways(i) == TRUE
QueriesOver(i) ==
    queries[i].launched = NumBases /\ queries[i].finished = NumBases

\* wayback_wbp: as_completed schedules the four variant tasks
VariantsStart(i) ==
    /\ Running /\ pc[i] = "list" /\ impl = "wayback_wbp"
    /\ queries[i].launched = 0
    /\ queries' = [queries EXCEPT ![i].launched = NumBases]
    /\ UNCHANGED <<pipeVars, mergeVars, dlVars>>

\* wayback: the request for the next base is sent
BaseStart(i) ==
    /\ Running /\ pc[i] = "list" /\ impl = "wayback"
    /\ queries[i].launched < NumBases
    /\ queries[i].launched = queries[i].finished
    /\ queries' = [queries EXCEPT ![i].launched = @ + 1]
    /\ UNCHANGED <<pipeVars, mergeVars, dlVars>>

\* a variant query comes back or fails; a thread started by to_thread runs
\* to its end even when the task that awaits it was cancelled
VariantEnds(i) ==
    /\ queries[i].finished < queries[i].launched
    /\ queries' = [queries EXCEPT ![i].finished = @ + 1]
    /\ UNCHANGED <<pipeVars, mergeVars, dlVars>>

\* list_snapshots returns, or raises, once its loop is over
GateListReturns(i, s) == QueriesOver(i) /\ ListReturns(i, s)

GateArchiveRaises(i, e) ==
    /\ pc[i] = "list" => QueriesOver(i)
    /\ ArchiveRaises(i, e)

NextGate ==
    \/ \E i \in Tasks : Acquire(i)
    \/ \E i \in Tasks, v \in TriState : AvailabilityReturns(i, v)
    \/ \E i \in Tasks, v \in TriState : IndexedReturns(i, v)
    \/ \E i \in Tasks : VariantsStart(i)
    \/ \E i \in Tasks : BaseStart(i)
    \/ \E i \in Tasks : VariantEnds(i)
    \/ \E i \in Tasks, s \in SnapLists : GateListReturns(i, s)
    \/ \E i \in Tasks, e \in {"OSError"} : GateArchiveRaises(i, e)
    \/ \E i \in Tasks, saved \in [1..MaxSnaps -> BOOLEAN] : DownloadReturns(i, saved)
    \/ Interrupt
    \/ \E i \in Tasks : Cancel(i)
    \/ RunReturn
    \/ RunRaise

SpecGate == InitGate /\ [][NextGate]_vars

\* ------------------------------------------------------------ properties
CallsOf(i) == {c.fn : c \in {d \in calls : d.task = i}}

AllTerminated == \A i \in Tasks : Terminated(i)

\* the position of task i in the order of termination
DonePos(i) == CHOOSE k \in 1..Len(doneOrder) : doneOrder[k] = i

\* C1: when run returns, its list has one DomainResult per input domain and
\* the result at position i is the one of the i-th input domain, whatever the
\* order in which the domain tasks completed.
C1_OutputInInputOrder ==
    runState = "returned" =>
        /\ Len(output) = Len(domains)
        /\ \A i \in 1..Len(domains) : output[i].domain = domains[i]

C1_Witness ==
    /\ runState = "returned"
    /\ Len(domains) = 3
    /\ doneOrder = <<3, 1, 2>>

\* C2: at most `concurrency` domain pipelines are in flight, every pipeline
\* in flight holds a gate slot, and every provider call was made by a task
\* holding a slot.
C2_GateBoundsInFlight ==
    /\ Cardinality(InFlight) <= concurrency
    /\ \A i \in InFlight : InGate(i)
    /\ \A c \in calls : c.held

C2_Witness ==
    /\ concurrency = 2
    /\ Cardinality(InFlight) = 2
    /\ \E i \in Tasks : pc[i] = "start"
    /\ \E i \in InFlight : pc[i] = "download"

\* C3: a domain whose availability check answered False or None is done
\* without any call of is_indexed, list_snapshots or download_screenshots,
\* and its result has indexed_google at its default None, no archived page
\* and empty notes.
C3_UnavailableShortCircuits ==
    \A i \in Tasks :
        answers[i].available \in {"False", "None"} =>
            /\ pc[i] = "done"
            /\ CallsOf(i) = {"check_availability"}
            /\ res[i].available = answers[i].available
            /\ res[i].indexed_google = "None"
            /\ res[i].wayback_screenshots = 0
            /\ res[i].wayback_html_pages = 0
            /\ res[i].notes = <<>>

C3_Witness ==
    /\ runState = "returned"
    /\ \E i, j \in Tasks :
        /\ answers[i].available = "None" /\ output[i].available = "None"
        /\ answers[j].available = "False" /\ output[j].available = "False"

\* C4: a domain that is available and whose indexation check answered False
\* or None is done without any call of list_snapshots or
\* download_screenshots; its result has available True, indexed_google as
\* the check answered and no archived page.
C4_NotIndexedShortCircuits ==
    \A i \in Tasks :
        (answers[i].available = "True" /\ answers[i].indexed \in {"False", "None"}) =>
            /\ pc[i] = "done"
            /\ CallsOf(i) = {"check_availability", "is_indexed"}
            /\ res[i].available = "True"
            /\ res[i].indexed_google = answers[i].indexed
            /\ res[i].wayback_screenshots = 0
            /\ res[i].wayback_html_pages = 0

C4_Witness ==
    /\ runState = "returned"
    /\ \E i, j \in Tasks :
        /\ answers[i].indexed = "None" /\ output[i].available = "True"
        /\ answers[j].indexed = "False" /\ output[j].indexed_google = "False"

\* C8: when list_snapshots or download_screenshots raises for an available
\* and indexed domain, process_domain does not raise: the task is done with
\* a result whose notes are not empty and whose available and indexed_google
\* are still True.
C8_ArchiveExceptionContained ==
    \A x \in archiveRaised :
        /\ pc[x[1]] = "done"
        /\ res[x[1]].notes # <<>>
        /\ res[x[1]].available = "True"
        /\ res[x[1]].indexed_google = "True"

C8_Witness ==
    /\ runState = "returned"
    /\ \E i, j \in Tasks :
        /\ <<i, "list">> \in archiveRaised /\ output[i].notes # <<>>
        /\ <<j, "download">> \in archiveRaised /\ output[j].notes # <<>>

\* C9: a task releases the gate at most as often as it acquired it, the
\* gate's value is the limit minus the number of tasks inside the gate, and
\* once every task has terminated (by either short circuit, by completion,
\* after a caught archive exception or by an exception leaving the task) the
\* value is the configured limit again.
C9_SlotsReleased ==
    /\ \A i \in Tasks : released[i] <= acquired[i] /\ acquired[i] <= 1
    /\ sem = concurrency - Cardinality({i \in Tasks : InGate(i)})
    /\ AllTerminated => sem = concurrency

C9_Witness ==
    /\ AllTerminated
    /\ \E i, j, k \in Tasks :
        /\ pc[i] = "raised" /\ acquired[i] = 1 /\ released[i] = 1
        /\ pc[j] = "raised" /\ acquired[j] = 0 /\ released[j] = 0
        /\ pc[k] = "done" /\ released[k] = 1 /\ <<k, "download">> \in archiveRaised

\* C10: a domain's failure neither cancels nor loses a domain: no task ends
\* with an exception unless the whole batch was interrupted, run raises only
\* then, and when run returns every domain, the failed ones included, has
\* run to the end of its chain and has its own result in the list.
C10_FailureIsolated ==
    /\ \A i \in Tasks : pc[i] = "raised" => interrupted
    /\ runState = "raised" => interrupted
    /\ runState = "returned" =>
           /\ DOMAIN output = Tasks
           /\ \A i \in Tasks : pc[i] = "done" /\ output[i] = res[i]
                               /\ output[i].domain = domains[i]

C10_Witness ==
    /\ runState = "returned"
    /\ \E i, j \in Tasks :
        /\ <<i, "download">> \in archiveRaised
        /\ DonePos(i) < DonePos(j)
        /\ output[i].notes # <<>>
        /\ output[j].notes = <<>> /\ output[j].wayback_screenshots = 1

\* ---- list_snapshots
NoDuplicates(s) == \A a, b \in 1..Len(s) : a # b => s[a] # s[b]

TimestampDescending(s) == \A a, b \in 1..Len(s) : a < b => s[a][1] >= s[b][1]

\* the merged, deduplicated, sorted list before any truncation
Merged ==
    IF impl = "wayback_wbp" THEN merge_and_dedupe(partials)
    ELSE SortDescInto(Uniq(rows, {}, <<>>), <<>>)

ArrivalOrders(n) == {f \in [1..n -> 1..n] : \A a, b \in 1..n : a # b => f[a] # f[b]}

\* C5: the list returned by either list_snapshots holds no (timestamp,
\* original) pair twice and is sorted by non-increasing timestamp, also when
\* the variant lists overlap or repeat an entry.
C5_MergedUniqueAndSorted ==
    mpc = "done" => NoDuplicates(snapshots) /\ TimestampDescending(snapshots)

C5_Witness ==
    /\ mpc = "done" /\ impl = "wayback_wbp"
    /\ \E a, b \in 1..Len(partials) :
        /\ a # b
        /\ ~NoDuplicates(partials[a])
        /\ Range(partials[a]) \cap Range(partials[b]) # {}
    /\ Len(snapshots) = 2
    /\ snapshots[1][1] > snapshots[2][1]

\* C6: the list returned by list_snapshots has at most `limit` entries, and
\* when the merged list has more than `limit` entries it is the first
\* `limit` entries of the merged list.
C6_AtMostLimit ==
    mpc = "done" =>
        /\ Len(snapshots) <= limit
        /\ Len(Merged) > limit => snapshots = SubSeq(Merged, 1, limit)

\* C7: the list returned by wayback_wbp.list_snapshots is the same for every
\* order in which the variant queries complete.
C7_ArrivalOrderIndependent ==
    (mpc = "done" /\ impl = "wayback_wbp") =>
        \A f \in ArrivalOrders(Len(partials)) :
            list_snapshots([k \in 1..Len(partials) |-> partials[f[k]]], limit) = snapshots

\* C11: a failing variant query never makes list_snapshots raise.  The list
\* wayback_wbp.list_snapshots returns is made of the snapshots of the variants
\* that succeeded: without duplicates, newest first, cut to the `limit`
\* newest.  When every variant query failed the list is empty, and the
\* processor then finishes with count 0, no note and no directory.
C11_VariantFailuresDropped ==
    /\ mpc # "raised"
    /\ (mpc = "done" /\ impl = "wayback_wbp") =>
          LET succeeded == Range(Flatten(partials))
          IN /\ NoDuplicates(snapshots)
             /\ TimestampDescending(snapshots)
             /\ Range(snapshots) \subseteq succeeded
             /\ Len(snapshots) = Min(limit, Cardinality(succeeded))
             /\ \A c \in succeeded \ Range(snapshots) :
                    \A k \in 1..Len(snapshots) : snapshots[k][1] >= c[1]
    /\ (mpc = "done" /\ partials = <<>> /\ rows = <<>>) => snapshots = <<>>
    /\ (mpc = "done" /\ snapshots = <<>> /\ pc[1] # "list") =>
          /\ pc[1] = "done"
          /\ res[1].wayback_screenshots = 0
          /\ res[1].notes = <<>>
          /\ written = {}

\* two of the four variant queries failed, the other two gave more than
\* `limit` snapshots between them, and the processor went on to download
C11_Witness ==
    /\ impl = "wayback_wbp" /\ mpc = "done"
    /\ Len(partials) = NumBases - 2
    /\ Cardinality(Range(Flatten(partials))) > limit
    /\ Len(snapshots) = limit
    /\ pc[1] = "download"

\* ---- download_screenshots
HtmlFiles == out_dir \cap Range(HtmlNames)

\* C12: n merged snapshots, a max count m >= 0, a directory that was empty,
\* and every download attempt answered 200 with an HTML content type: once
\* wayback_wbp.download_screenshots has returned, the directory holds exactly
\* min(n, m) HTML files and the count recorded is min(n, m).
C12_MinFilesWhenAllSucceed ==
    (/\ dpc = "returned" /\ impl = "wayback_wbp"
     /\ max_screenshots >= 0
     /\ out_dir \ wrote = {}
     /\ \A k \in 1..Len(responses) :
            responses[k] # NoRequest =>
                responses[k].status = 200 /\ responses[k].ctype = "text/html")
    => /\ Cardinality(HtmlFiles) = Min(Len(snapshots), max_screenshots)
       /\ nsaved = Min(Len(snapshots), max_screenshots)
       /\ pc[1] = "done" =>
             res[1].wayback_screenshots = Min(Len(snapshots), max_screenshots)

\* C13: once download_screenshots has returned (the directory was made), it
\* has written one manifest, and the manifest has min(n, m) entries, one per
\* item, whatever became of each item.
C13_ManifestPerAttempt ==
    (dpc = "returned" /\ max_screenshots >= 0) =>
        /\ "manifest.json" \in wrote
        /\ Len(manifest) = Min(Len(snapshots), max_screenshots)

\* C14: for every max count m the command line lets through and every
\* non-empty list, at most m downloads are attempted (none when m is zero or
\* negative) and the count recorded is at most m.
C14_AtMostMaxCount ==
    dpc # "idle" =>
        /\ Attempts <= Max(0, max_screenshots)
        /\ nsaved <= Max(0, max_screenshots)
        /\ pc[1] = "done" => res[1].wayback_screenshots <= Max(0, max_screenshots)

\* C17: in wayback_wbp.download_screenshots an attempt is saved exactly when
\* its response is 200 with an HTML content type; any other response and any
\* transport error leaves a manifest entry that is not saved; the loop goes
\* on to the last item of the subset; the count returned is the number of
\* HTML files written by this call.
C17_SavedIffOkHtml ==
    (dpc # "idle" /\ impl = "wayback_wbp") =>
        /\ dpc \in {"loop", "returned"}
        /\ Len(manifest) = Len(responses)
        /\ \A k \in 1..Len(responses) :
               LET okHtml == responses[k].status = 200 /\ responses[k].ctype = "text/html"
                   name == HtmlNames[DlSubset[k][1]]
               IN /\ okHtml <=> (manifest[k].saved = name /\ manifest[k].note = "status")
                  /\ okHtml => name \in wrote
                  /\ (~okHtml /\ responses[k] # NoRequest) => manifest[k].saved = "None"
        /\ nsaved = Cardinality({k \in 1..Len(responses) :
                         responses[k].status = 200 /\ responses[k].ctype = "text/html"})
        /\ nsaved = Cardinality(wrote \cap Range(HtmlNames))
        /\ dpc = "returned" => Len(responses) = Len(DlSubset)
        /\ pc[1] = "done" => res[1].wayback_screenshots = nsaved /\ res[1].notes = <<>>

\* the first item's request raised, the second got a 200 that is no HTML, and
\* neither kept the call from returning with what it had
C17_Witness ==
    /\ impl = "wayback_wbp" /\ pc[1] = "done"
    /\ Len(responses) = 2
    /\ responses[1] = Raised
    /\ responses[2] = [status |-> 200, ctype |-> "image/png"]
    /\ nsaved = 0 /\ wrote = {"manifest.json"}
    /\ Len(manifest) = 2

\* item k's target file was on disk when the loop came to item k: it was
\* there when the call began, or an earlier item of this call saved it
ExistedAt(k) ==
    LET name == HtmlNames[DlSubset[k][1]]
    IN \/ name \in existing
       \/ \E j \in 1..(k - 1) :
              /\ DlSubset[j][1] = DlSubset[k][1]
              /\ responses[j].status = 200 /\ responses[j].ctype = "text/html"

\* C22: wayback_wbp.download_screenshots with overwrite off never writes an
\* HTML file that is already there: the item is skipped with no request, gets
\* a manifest entry marked skipped, and is not counted.  A call that follows a
\* fully successful one on the same snapshots writes no HTML file and
\* returns 0.
C22_ExistingFilesSkipped ==
    (dpc # "idle" /\ impl = "wayback_wbp") =>
        /\ wrote \cap existing \cap Range(HtmlNames) = {}
        /\ existing \subseteq out_dir
        /\ \A k \in 1..Len(responses) :
               ExistedAt(k) =>
                   /\ responses[k] = NoRequest
                   /\ manifest[k].note = "skipped"
                   /\ manifest[k].saved = HtmlNames[DlSubset[k][1]]
        /\ nsaved <= Cardinality({k \in 1..Len(responses) : ~ExistedAt(k)})
        /\ (Len(previous) > 0 /\ previous[Len(previous)]) =>
               /\ Attempts = 0
               /\ wrote \cap Range(HtmlNames) = {}
               /\ nsaved = 0
               /\ pc[1] = "done" => res[1].wayback_screenshots = 0

\* a first call saved both snapshots; the second call on the same list has
\* skipped both, written the manifest only, and recorded 0
C22_Witness ==
    /\ impl = "wayback_wbp" /\ pc[1] = "done"
    /\ previous = <<TRUE>>
    /\ existing = {"1.html", "2.html", "manifest.json"}
    /\ responses = <<NoRequest, NoRequest>>
    /\ Len(manifest) = 2
    /\ wrote = {"manifest.json"}
    /\ res[1].wayback_screenshots = 0

\* ---- the gate and the variant queries
\* C21: a domain runs at most four variant queries at a time, the variant
\* queries in flight over the whole batch are at most four times the
\* concurrency limit, and a domain listing its snapshots holds the one slot
\* it entered with: it has acquired once, and the slots taken are as many as
\* the domains inside the gate.
C21_QueriesBoundedByGate ==
    /\ \A i \in Tasks : Running_(i) >= 0 /\ Running_(i) <= 4
    /\ InFlightQueries <= 4 * concurrency
    /\ \A i \in Tasks :
           /\ acquired[i] <= 1
           /\ (pc[i] = "list" \/ (Running_(i) > 0 /\ ~interrupted)) =>
                  acquired[i] - released[i] = 1
    /\ concurrency - sem = Cardinality({i \in Tasks : InGate(i)})

\* a gate of two slots, both holders with their four variant queries under
\* way, and a third domain waiting outside
C21_Witness ==
    /\ concurrency = 2 /\ Len(domains) = 3
    /\ InFlightQueries = 8
    /\ \E i \in Tasks : pc[i] = "start"
    /\ Cardinality({i \in Tasks : pc[i] = "list"}) = 2
    /\ sem = 0

\* ---- the batch: files and results
PathsOf(i) == {w.path : w \in {x \in written : x.task = i}}

\* C15: the per-domain subdirectory exists if and only if the domain's
\* availability check answered True, its indexation check answered True and
\* list_snapshots returned a non-empty list; a task of any other domain
\* (either short circuit, empty list, listing failure) has made no directory
\* and no file.
C15_SubdirectoryIffSnapshots ==
    \A i \in Tasks :
        LET listedSome == /\ answers[i].available = "True"
                          /\ answers[i].indexed = "True"
                          /\ answers[i].listed = "nonempty"
        IN /\ (ddir(i) \in PathsOf(i)) <=> listedSome
           /\ ~listedSome => PathsOf(i) = {}

C15_Witness ==
    /\ runState = "returned"
    /\ \E i, j, k \in Tasks :
        /\ ddir(i) \in PathsOf(i) /\ answers[i].listed = "nonempty"
        /\ answers[j].listed = "empty" /\ PathsOf(j) = {}
        /\ <<k, "list">> \in archiveRaised /\ PathsOf(k) = {}

\* C16: the result carries each check's answer unchanged: available is what
\* check_availability returned (None stays None), and for an available
\* domain indexed_google is what is_indexed returned; a domain whose check
\* answered None is in the list run returns and in the files it writes.
C16_TriStateCarried ==
    /\ \A i \in Tasks :
        /\ answers[i].available # "-" => res[i].available = answers[i].available
        /\ answers[i].indexed # "-" =>
               /\ res[i].available = "True"
               /\ res[i].indexed_google = answers[i].indexed
    /\ runState = "returned" =>
           \A i \in Tasks :
               /\ output[i].domain = domains[i]
               /\ output[i].available = answers[i].available
               /\ answers[i].indexed # "-" => output[i].indexed_google = answers[i].indexed
               /\ files["results.json"].rows[i] = output[i]

C16_Witness ==
    /\ runState = "returned"
    /\ \E i, j \in Tasks :
        /\ answers[i].available = "None" /\ output[i].available = "None"
        /\ answers[j].available = "True" /\ answers[j].indexed = "None"
        /\ output[j].indexed_google = "None"

\* C18: no path is made or written by two domain tasks, and every path a
\* task makes or writes is its own domain's subdirectory or lies in it.
C18_WritesPartitionedByDomain ==
    /\ \A w1, w2 \in written : w1.path = w2.path => w1.task = w2.task
    /\ \A w \in written :
        /\ Len(w.path) >= 2
        /\ SubSeq(w.path, 1, 2) = <<"screenshots", domains[w.task]>>

C18_Witness ==
    \E i, j \in Tasks :
        /\ i # j
        /\ Append(ddir(i), "2.html") \in PathsOf(i)
        /\ Append(ddir(i), "manifest.json") \in PathsOf(i)
        /\ Append(ddir(j), "2.html") \in PathsOf(j)
        /\ Append(ddir(j), "manifest.json") \in PathsOf(j)

\* C19: results.json and results.csv exist only when every domain task has
\* terminated; both then hold one record per input domain, in input order.
C19_AggregateAfterAllTasks ==
    \A p \in DOMAIN files :
        files[p].exists =>
            /\ InFlight = {}
            /\ \A i \in Tasks : pc[i] = "done"
            /\ Len(files[p].rows) = Len(domains)
            /\ \A k \in 1..Len(domains) :
                /\ files[p].rows[k].domain = domains[k]
                /\ files[p].rows[k] = res[k]
            /\ \A q \in DOMAIN files : files[q].exists

C19_Witness ==
    /\ files["results.json"].exists /\ files["results.csv"].exists
    /\ Len(domains) = 3
    /\ doneOrder = <<2, 3, 1>>
    /\ \E i \in Tasks : res[i].wayback_screenshots = 1

\* C20: with a concurrency limit of at least 1 and every provider call coming
\* back, under fair scheduling every task that waits at the gate is granted a
\* slot, every domain's chain terminates, and run returns.
C20_GateLiveness ==
    /\ \A i \in TaskIds :
           (i \in Tasks /\ pc[i] = "start") ~> (i \in Tasks /\ acquired[i] = 1)
    /\ \A i \in TaskIds : <>(i \in Tasks => pc[i] = "done")
    /\ <>(runState = "returned")

\* three domains behind a gate of one slot: two tasks had to wait, and the
\* batch came to its end
C20_Witness ==
    /\ concurrency = 1 /\ Len(domains) = 3
    /\ \A i \in Tasks : acquired[i] = 1 /\ released[i] = 1
    /\ runState = "returned"
====
